---------------------------- MODULE Spec2Model ----------------------------
(***************************************************************************)
(* Shift cash reconciliation of the medical store application              *)
(* (src/app.py): the store collections, the Streamlit session state, and   *)
(* the Shift Recording page's handlers, one step per store round trip.     *)
(*                                                                         *)
(* Amounts are whole currency units.  A store call that raises is the      *)
(* error flag of safe_supabase_call; the environment may make at most      *)
(* failBudget calls raise.                                                 *)
(***************************************************************************)
EXTENDS Integers, Sequences, FiniteSets, TLC

\* ------------------------------------------------------------------ bounds
MaxDay == 1          \* dates are 0..MaxDay
MaxShifts == 2       \* rows in shifts
MaxRows == 2         \* rows the forms add, over all five transaction tables
MaxAmt == 1          \* form amounts are 1..MaxAmt
MaxSale == 1         \* total sale entered is 0..MaxSale
MaxClosing == 1      \* closing cash entered is 0..MaxClosing
MaxHeads == 2        \* rows in expense_heads
MaxFail == 1         \* store calls that may raise in one behaviour
MaxSessions == 2     \* browser sessions
TicksPerDay == 2     \* instants of a day: 0 is midnight
MaxTxns == 3         \* vendor transactions the ledger report reads

\* ------------------------------------------------------------ python values
\* A nullable column or variable: None is <<>>, a value v is <<v>>.
None == <<>>
Some(v) == <<v>>
Val(x) == x[1]
\* Python truthiness of a nullable number: None and 0 are falsy.
Truthy(x) == x # None /\ Val(x) # 0
\* a or b or 0, as Python evaluates it on nullable numbers.
OrOrZero(a, b) == IF Truthy(a) THEN Val(a) ELSE IF Truthy(b) THEN Val(b) ELSE 0

\* session_state.current_shift_id = None (ids start at 1, so 0 is falsy too)
NoShift == 0

ShiftNames == {"Morning", "Evening", "Night"}
\* Head names typed into the add_head form.
HeadNames == {"Cash Shortage"}
Sources == {"sales_cash", "owner_pocket"}
Tables == {"shifts", "expenses", "vendor_payments", "purchases", "withdrawals"}

\* Code point of the first character of each shift name: the three names
\* differ there, so it decides the store's text comparison .lt("shift_name").
FirstChar == [Evening |-> 69, Morning |-> 77, Night |-> 78]
NameLt(a, b) == FirstChar[a] < FirstChar[b]

VARIABLES
    today,            \* date.today()
    shifts,           \* table shifts, id = index
    expense_heads,    \* table expense_heads (names), id = index
    vendors,          \* table vendors, id = index
    expenses,         \* table expenses
    vendor_payments,  \* table vendor_payments
    purchases,        \* table purchases
    returns,          \* table returns
    withdrawals,      \* table withdrawals
    owner_ledger,     \* table owner_ledger
    sess,             \* per browser session: session_state and the running script
    failBudget,       \* store calls the environment may still make raise
    limits            \* how far this behaviour may grow the store (never changes)

store == <<shifts, expense_heads, vendors, expenses, vendor_payments,
           purchases, returns, withdrawals, owner_ledger>>
txns == <<expenses, vendor_payments, purchases, returns, withdrawals, owner_ledger>>
vars == <<today, shifts, expense_heads, vendors, expenses, vendor_payments,
          purchases, returns, withdrawals, owner_ledger, sess, failBudget, limits>>

\* The browser sessions of a behaviour are among these.
SessionIds == 1..MaxSessions
Sessions == DOMAIN sess
ShiftIds == 1..Len(shifts)

\* ------------------------------------------------------------ store helpers
RECURSIVE SumAmount(_)
SumAmount(rows) == IF rows = <<>> THEN 0 ELSE Head(rows).amount + SumAmount(Tail(rows))

FormRows == Len(expenses) + Len(vendor_payments) + Len(purchases)
            + Len(returns) + Len(withdrawals)

\* safe_supabase_call: the call raises (TRUE) only while the budget lasts.
Errs == IF failBudget > 0 THEN {FALSE, TRUE} ELSE {FALSE}
Spend(n) == failBudget' = failBudget - n
ErrCount(err) == IF err THEN 1 ELSE 0

\* No row in hand.
NoData == [amount |-> 0]

\* No vendor ledger on the screen.
NoReport == [vendor_id |-> 0, start_date |-> 0, end_date |-> 0, ledger |-> <<>>]

\* The script is between runs: nothing of a handler is pending.
IdleSess(cur) ==
    [pc |-> "idle", cur |-> cur, shift_id |-> NoShift, shift_name |-> "",
     date |-> 0, opening |-> 0, expected |-> None, computed |-> None,
     closing_cash |-> 0,
     data |-> NoData, ret |-> "", via |-> "page", result |-> None,
     shift_info |-> None, msgs |-> {}, faults |-> 0, report |-> NoReport,
     form |-> ""]

\* The run is over: its messages are on the screen until the next run.
Done(cur, msgs) == [IdleSess(cur) EXCEPT !.pc = "done", !.msgs = msgs]

Set(s, rec) == sess' = [sess EXCEPT ![s] = rec]

\* ---------------------------------------------------------------- initial
InitStore ==
    /\ today = 0
    /\ shifts = <<>>
    /\ expense_heads = <<"Rent">>
    /\ vendors = <<[name |-> "V", opening_balance |-> 0]>>
    /\ expenses = <<>>
    /\ vendor_payments = <<>>
    /\ purchases = <<>>
    /\ returns = <<>>
    /\ withdrawals = <<>>
    /\ owner_ledger = <<>>

\* The explored behaviours: many transactions on one shift of one day, or
\* several shifts over several days without form transactions, or shifts of
\* one day with fewer transactions.
OneShift == [shifts |-> 1, rows |-> MaxRows, days |-> 0]
ManyShifts == [shifts |-> MaxShifts, rows |-> 0, days |-> MaxDay]
Mixed == [shifts |-> MaxShifts, rows |-> MaxRows - 1, days |-> 0]

\* One authenticated session, a store that may fail MaxFail times.
Init ==
    /\ InitStore
    /\ sess = [s \in {1} |-> IdleSess(NoShift)]
    /\ failBudget = MaxFail
    /\ limits \in {OneShift, ManyShifts}

\* One authenticated session, a store that never fails.
InitNoFail ==
    /\ InitStore
    /\ sess = [s \in {1} |-> IdleSess(NoShift)]
    /\ failBudget = 0
    /\ limits \in {OneShift, ManyShifts, Mixed}

\* One session and a store that never fails, for the direct calls.
ForCalls == [shifts |-> 1, rows |-> MaxRows - 1, days |-> MaxDay]

\* The shifts of one day without form transactions, for calls on a shift that
\* opened with the cash of the shift before it.
ForReclose == [shifts |-> MaxShifts, rows |-> 0, days |-> 0]

InitApi ==
    /\ InitStore
    /\ sess = [s \in {1} |-> IdleSess(NoShift)]
    /\ failBudget = 0
    /\ limits \in {ForCalls, ForReclose}

\* ------------------------------------------------------------ environment
\* Midnight passes: date.today() moves on.
NextDay ==
    /\ today < limits.days
    /\ today' = today + 1
    /\ UNCHANGED <<limits, store, sess, failBudget>>

\* Heads Setup page, form add_head.
AddHead(s, name) ==
    /\ s \in Sessions
    /\ sess[s].pc = "idle"
    /\ Len(expense_heads) < MaxHeads
    /\ \E err \in Errs :
          /\ Spend(ErrCount(err))
          /\ expense_heads' = IF err THEN expense_heads ELSE Append(expense_heads, name)
    /\ UNCHANGED <<limits, today, shifts, vendors, txns, sess>>

\* ----------------------------------------------------- get_or_create_shift
\* The existence lookup without its date filter.
ShiftsNamed(d, name) == {i \in ShiftIds : shifts[i].shift_name = name}

\* The rows of the existence lookup: .eq("date").eq("shift_name").
ShiftsFor(d, name) ==
    {i \in ShiftIds : shifts[i].date = d /\ shifts[i].shift_name = name}

\* The rows of the previous-shift query: .eq("date").lt("shift_name", name).
PrevShifts(d, name) ==
    {i \in ShiftIds : shifts[i].date = d /\ NameLt(shifts[i].shift_name, name)}

\* prev.data[-1] after .order("shift_name"): a row whose name no other row of
\* the result exceeds (rows of equal name come in either order).
LastPrev(d, name) ==
    {i \in PrevShifts(d, name) :
        \A j \in PrevShifts(d, name) : ~NameLt(shifts[i].shift_name, shifts[j].shift_name)}

\* opening = last.get('expected_cash') or last.get('closing_cash_entered') or 0
OpeningFrom(last) == OrOrZero(last.expected_cash, last.closing_cash_entered)

\* A new shift row that is born closed.
NewShiftClosed(d, name, opening) ==
    [date |-> d, shift_name |-> name, opening_cash |-> opening, total_sale |-> 0,
     expected_cash |-> None, closing_cash_entered |-> None, status |-> "closed",
     closed_at |-> None]

NewShift(d, name, opening) ==
    [date |-> d, shift_name |-> name, opening_cash |-> opening, total_sale |-> 0,
     expected_cash |-> None, closing_cash_entered |-> None, status |-> "open",
     closed_at |-> None]

\* get_or_create_shift returns r to the button handler.
GocReturn(s, from, r, msgs, nf) ==
    Set(s, [from EXCEPT !.pc = "shift_ret", !.result = r,
               !.msgs = @ \cup msgs, !.faults = @ + nf])

\* A shift button is clicked: current_date = date.today(), then
\* get_or_create_shift up to its existence lookup.
ClickShift(s, name) ==
    /\ s \in Sessions
    /\ sess[s].pc = "idle"
    /\ Len(shifts) < limits.shifts \/ ShiftsFor(today, name) # {}
    /\ LET run == [IdleSess(sess[s].cur) EXCEPT !.shift_name = name, !.date = today]
       IN  \E err \in Errs :
              /\ Spend(ErrCount(err))
              /\ IF err
                   THEN GocReturn(s, run, None, {"Shift lookup failed"}, 1)
                   ELSE \E i \in ShiftsFor(today, name) \cup {NoShift} :
                           /\ i = NoShift <=> ShiftsFor(today, name) = {}
                           /\ IF i = NoShift
                                THEN Set(s, [run EXCEPT !.pc = "goc_prev"])
                                ELSE GocReturn(s, run, Some(i), {}, 0)
    /\ UNCHANGED <<limits, today, store>>

\* The previous-shift query and the opening cash it gives.
GocPrev(s) ==
    /\ s \in Sessions
    /\ sess[s].pc = "goc_prev"
    /\ \E err \in Errs :
          /\ Spend(ErrCount(err))
          /\ IF err
               THEN GocReturn(s, sess[s], None, {"Failed to get previous shift"}, 1)
               ELSE \E i \in LastPrev(sess[s].date, sess[s].shift_name) \cup {NoShift} :
                       /\ i = NoShift <=> LastPrev(sess[s].date, sess[s].shift_name) = {}
                       /\ Set(s, [sess[s] EXCEPT
                                     !.pc = "goc_insert",
                                     !.opening = IF i = NoShift THEN 0
                                                 ELSE OpeningFrom(shifts[i])])
    /\ UNCHANGED <<limits, today, store>>

\* The insert of the new shift row.
GocInsert(s) ==
    /\ s \in Sessions
    /\ sess[s].pc = "goc_insert"
    /\ \E err \in Errs :
          /\ Spend(ErrCount(err))
          /\ IF err
               THEN /\ GocReturn(s, sess[s], None, {"Failed to create shift"}, 1)
                    /\ shifts' = shifts
               ELSE /\ shifts' = Append(shifts,
                          NewShift(sess[s].date, sess[s].shift_name, sess[s].opening))
                    /\ GocReturn(s, sess[s], Some(Len(shifts) + 1), {}, 0)
    /\ UNCHANGED <<limits, today, expense_heads, vendors, txns>>

\* The button handler without its test of the returned id.
ShiftRetUnchecked(s) ==
    /\ s \in Sessions
    /\ sess[s].pc = "shift_ret"
    /\ Set(s, Done(IF sess[s].result = None THEN NoShift ELSE Val(sess[s].result),
                   sess[s].msgs))
    /\ UNCHANGED <<limits, today, store, failBudget>>

\* if shift_id: current_shift_id = shift_id; rerun
ShiftRet(s) ==
    /\ s \in Sessions
    /\ sess[s].pc = "shift_ret"
    /\ Set(s, Done(IF Truthy(sess[s].result) THEN Val(sess[s].result)
                   ELSE sess[s].cur, sess[s].msgs))
    /\ UNCHANGED <<limits, today, store, failBudget>>

\* ------------------------------------------------- calculate_expected_cash
\* The source filter left out: rows of either source.
AnySource(rows) == rows

Mine(rows, shift_id) == SelectSeq(rows, LAMBDA r : r.shift_id = shift_id)
SalesCash(rows) == SelectSeq(rows, LAMBDA r : r.source = "sales_cash")
CashFromSales(rows) ==
    SelectSeq(rows, LAMBDA r : r.payment_type = "cash" /\ r.source_if_cash = "sales_cash")

\* A sum that is 0 whatever the rows.
NoSum(rows, failed) == 0

\* sum(...) if not err and data else 0
ReadSum(rows, failed) == IF failed THEN 0 ELSE SumAmount(rows)

\* calculate_expected_cash with the source filter of the expenses query left
\* out: owner_pocket expenses are subtracted too.
calculate_all_expenses(shift_id, failed) ==
    IF "shifts" \in failed \/ shift_id \notin ShiftIds
      THEN [value |-> 0, msgs |-> {"Shift not found"}]
      ELSE [value |->
              shifts[shift_id].opening_cash + shifts[shift_id].total_sale
                - ( ReadSum(Mine(expenses, shift_id), "expenses" \in failed)
                  + ReadSum(SalesCash(Mine(vendor_payments, shift_id)),
                            "vendor_payments" \in failed)
                  + ReadSum(CashFromSales(Mine(purchases, shift_id)),
                            "purchases" \in failed)
                  + ReadSum(Mine(withdrawals, shift_id), "withdrawals" \in failed) ),
            msgs |-> {}]

\* calculate_expected_cash(shift_id) when the reads of the tables in `failed`
\* raise: the value returned and the st.error shown.
calculate_expected_cash(shift_id, failed) ==
    IF "shifts" \in failed \/ shift_id \notin ShiftIds
      THEN [value |-> 0, msgs |-> {"Shift not found"}]
      ELSE [value |->
              shifts[shift_id].opening_cash + shifts[shift_id].total_sale
                - ( ReadSum(SalesCash(Mine(expenses, shift_id)), "expenses" \in failed)
                  + ReadSum(SalesCash(Mine(vendor_payments, shift_id)),
                            "vendor_payments" \in failed)
                  + ReadSum(CashFromSales(Mine(purchases, shift_id)),
                            "purchases" \in failed)
                  + ReadSum(Mine(withdrawals, shift_id), "withdrawals" \in failed) ),
            msgs |-> {}]

\* Which reads of one calculate_expected_cash call may raise: the shift read
\* alone (the call returns at once), or any of the four sums.
FailSets ==
    {F \in SUBSET Tables :
        /\ Cardinality(F) <= failBudget
        /\ "shifts" \in F => F = {"shifts"}}

\* supabase.table("shifts").update(fields).eq("id", shift_id): no row, no write.
UpdateShift(shift_id, fields) ==
    IF shift_id \in ShiftIds
      THEN [shifts EXCEPT ![shift_id] =
              [k \in DOMAIN @ |-> IF k \in DOMAIN fields THEN fields[k] ELSE @[k]]]
      ELSE shifts

\* ---------------------------------------------------- update_expected_cash
\* expected = calculate_expected_cash(shift_id), called from the session
\* state `from`; `ret` is where update_expected_cash returns to.
UecCalc(s, from, shift_id, ret) ==
    \E F \in FailSets :
       /\ Spend(Cardinality(F))
       /\ LET r == calculate_expected_cash(shift_id, F)
          IN  Set(s, [from EXCEPT !.pc = "uec_write", !.shift_id = shift_id,
                         !.ret = ret, !.data = NoData,
                         !.computed = Some(r.value),
                         !.msgs = @ \cup r.msgs,
                         !.faults = @ + Cardinality(F)])

\* update_expected_cash inside a handler or close_shift, after their insert.
Recompute(s) ==
    /\ s \in Sessions
    /\ sess[s].pc = "uec_calc"
    /\ UecCalc(s, sess[s], sess[s].shift_id, sess[s].ret)
    /\ UNCHANGED <<limits, today, store>>

\* Where update_expected_cash returns to.
AfterUec(s, msgs, nf) ==
    IF sess[s].ret = "idle"
      THEN Done(sess[s].cur, sess[s].msgs \cup msgs)
      ELSE [sess[s] EXCEPT !.pc = sess[s].ret, !.ret = "",
               !.msgs = @ \cup msgs, !.faults = @ + nf]

\* The update of shifts.expected_cash.
UecWrite(s) ==
    /\ s \in Sessions
    /\ sess[s].pc = "uec_write"
    /\ \E err \in Errs :
          /\ Spend(ErrCount(err))
          /\ IF err
               THEN /\ shifts' = shifts
                    /\ Set(s, AfterUec(s, {"Failed to update expected cash"}, 1))
               ELSE /\ shifts' = UpdateShift(sess[s].shift_id,
                                             [expected_cash |-> sess[s].computed])
                    /\ Set(s, AfterUec(s, {}, 0))
    /\ UNCHANGED <<limits, today, expense_heads, vendors, txns>>

\* ------------------------------------------------------ record_owner_ledger
\* An owner_ledger row with the sign of the amount turned round.
NegatedLedgerRow(amount, description, shift_id) ==
    [amount |-> 0 - amount, description |-> description, shift_id |-> shift_id]

\* An owner_ledger row that keeps the size of the amount and drops its sign.
UnsignedLedgerRow(amount, description, shift_id) ==
    [amount |-> IF amount < 0 THEN 0 - amount ELSE amount,
     description |-> description, shift_id |-> shift_id]

\* The row of owner_ledger that record_owner_ledger(amount, description, shift_id) inserts.
LedgerRow(amount, description, shift_id) ==
    [amount |-> amount, description |-> description, shift_id |-> shift_id]

\* The insert into owner_ledger of the row in hand, then the rest of the handler.
Ledger(s) ==
    /\ s \in Sessions
    /\ sess[s].pc = "ledger"
    /\ \E err \in Errs :
          /\ Spend(ErrCount(err))
          /\ owner_ledger' = IF err THEN owner_ledger
                             ELSE Append(owner_ledger, sess[s].data)
          /\ LET msgs == IF err THEN {"Failed to record owner ledger"} ELSE {}
             IN  IF sess[s].ret = "idle"
                   THEN Set(s, Done(sess[s].cur, sess[s].msgs \cup msgs))
                   ELSE Set(s, [sess[s] EXCEPT !.pc = "uec_calc", !.ret = "idle",
                                   !.data = NoData, !.msgs = @ \cup msgs,
                                   !.faults = @ + ErrCount(err)])
    /\ UNCHANGED <<limits, today, shifts, expense_heads, vendors, expenses, vendor_payments,
                   purchases, returns, withdrawals>>

\* The next interaction starts a new run: the screen is cleared.
EndRun(s) ==
    /\ s \in Sessions
    /\ sess[s].pc = "done"
    /\ Set(s, IdleSess(sess[s].cur))
    /\ UNCHANGED <<limits, today, store, failBudget>>

\* ---------------------------------------------------- Shift Recording page
\* The top of the page without the test of the status: the forms are shown
\* for a closed shift too.
GateAnyStatus(s) ==
    /\ s \in Sessions
    /\ sess[s].pc = "idle"
    /\ sess[s].cur # NoShift
    /\ \E err \in Errs :
          /\ Spend(ErrCount(err))
          /\ IF err \/ sess[s].cur \notin ShiftIds
               THEN Set(s, Done(NoShift, {"Shift error"}))
               ELSE Set(s, [IdleSess(sess[s].cur) EXCEPT
                               !.pc = "page", !.shift_id = sess[s].cur,
                               !.shift_info = shifts[sess[s].cur]])
    /\ UNCHANGED <<limits, today, store>>

\* The top of the page for a selected shift: the shift row is read; a failed
\* read drops the selection, a closed shift shows no form, and under an open
\* shift the script goes on to the handler of what was submitted.
Gate(s) ==
    /\ s \in Sessions
    /\ sess[s].pc = "idle"
    /\ sess[s].cur # NoShift
    /\ \E err \in Errs :
          /\ Spend(ErrCount(err))
          /\ IF err \/ sess[s].cur \notin ShiftIds
               THEN Set(s, Done(NoShift, {"Shift error"}))
               ELSE IF shifts[sess[s].cur].status = "closed"
                      THEN Set(s, Done(sess[s].cur, {"This shift is closed"}))
                      ELSE Set(s, [IdleSess(sess[s].cur) EXCEPT
                                      !.pc = "page", !.shift_id = sess[s].cur,
                                      !.shift_info = shifts[sess[s].cur]])
    /\ UNCHANGED <<limits, today, store>>

\* A handler ends on a failed insert or update.
Fail(s, msg) ==
    Set(s, Done(sess[s].cur, sess[s].msgs \cup {msg}))

\* "Clear Selection", shown for a closed shift.
ClearSelection(s) ==
    /\ s \in Sessions
    /\ sess[s].pc = "idle"
    /\ sess[s].cur \in ShiftIds
    /\ shifts[sess[s].cur].status = "closed"
    /\ Set(s, IdleSess(NoShift))
    /\ UNCHANGED <<limits, today, store, failBudget>>

\* The Total Sale input holds a value other than the one the page read.
ChangeSale(s, new_sale) ==
    /\ s \in Sessions
    /\ sess[s].pc = "page"
    /\ new_sale # sess[s].shift_info.total_sale
    /\ \E err \in Errs :
          /\ Spend(ErrCount(err))
          /\ IF err
               THEN /\ shifts' = shifts
                    /\ Fail(s, "Failed to update sale")
               ELSE /\ shifts' = UpdateShift(sess[s].shift_id, [total_sale |-> new_sale])
                    /\ Set(s, [sess[s] EXCEPT !.pc = "uec_calc", !.ret = "idle",
                                  !.form = "total_sale"])
    /\ UNCHANGED <<limits, today, expense_heads, vendors, txns>>

\* A handler that ends after its insert (and owner_ledger row) without
\* update_expected_cash.
AfterInsertOnly(s, form, ledger, row, recompute) ==
    IF ledger
      THEN Set(s, [sess[s] EXCEPT !.pc = "ledger", !.data = row, !.form = form,
                      !.ret = "idle"])
      ELSE Set(s, Done(sess[s].cur, sess[s].msgs))

\* After a successful insert by the submitted `form`: record_owner_ledger(row)
\* if `ledger`, then update_expected_cash if `recompute`.
AfterInsert(s, form, ledger, row, recompute) ==
    IF ledger
      THEN Set(s, [sess[s] EXCEPT !.pc = "ledger", !.data = row, !.form = form,
                      !.ret = IF recompute THEN "uec" ELSE "idle"])
      ELSE IF recompute
             THEN Set(s, [sess[s] EXCEPT !.pc = "uec_calc", !.ret = "idle",
                             !.form = form])
             ELSE Set(s, Done(sess[s].cur, sess[s].msgs))

\* expense_form
SubmitExpense(s, head, amt, src) ==
    /\ s \in Sessions
    /\ sess[s].pc = "page"
    /\ FormRows < limits.rows
    /\ head \in 1..Len(expense_heads)
    /\ \E err \in Errs :
          /\ Spend(ErrCount(err))
          /\ IF err
               THEN /\ expenses' = expenses
                    /\ Fail(s, "Failed")
               ELSE /\ expenses' = Append(expenses,
                          [shift_id |-> sess[s].shift_id, expense_head_id |-> head,
                           amount |-> amt, source |-> src])
                    /\ AfterInsert(s, "expense_form", src = "owner_pocket",
                          LedgerRow(amt, "Expense", sess[s].shift_id), TRUE)
    /\ UNCHANGED <<limits, today, shifts, expense_heads, vendors, vendor_payments, purchases,
                   returns, withdrawals, owner_ledger>>

\* payment_form
SubmitPayment(s, vendor, amt, src) ==
    /\ s \in Sessions
    /\ sess[s].pc = "page"
    /\ FormRows < limits.rows
    /\ vendor \in 1..Len(vendors)
    /\ \E err \in Errs :
          /\ Spend(ErrCount(err))
          /\ IF err
               THEN /\ vendor_payments' = vendor_payments
                    /\ Fail(s, "Failed")
               ELSE /\ vendor_payments' = Append(vendor_payments,
                          [shift_id |-> sess[s].shift_id, vendor_id |-> vendor,
                           amount |-> amt, source |-> src])
                    /\ AfterInsert(s, "payment_form", src = "owner_pocket",
                          LedgerRow(amt, "Vendor Payment", sess[s].shift_id), TRUE)
    /\ UNCHANGED <<limits, today, shifts, expense_heads, vendors, expenses, purchases,
                   returns, withdrawals, owner_ledger>>

\* purchase_form: source_if_cash is set only for a cash purchase (the Source
\* input is disabled, at its first option, for a credit purchase).
SubmitPurchase(s, vendor, amt, pay_type, src) ==
    /\ s \in Sessions
    /\ sess[s].pc = "page"
    /\ FormRows < limits.rows
    /\ vendor \in 1..Len(vendors)
    /\ pay_type = "credit" => src = "sales_cash"
    /\ \E err \in Errs :
          /\ Spend(ErrCount(err))
          /\ IF err
               THEN /\ purchases' = purchases
                    /\ Fail(s, "Failed")
               ELSE /\ purchases' = Append(purchases,
                          [shift_id |-> sess[s].shift_id, vendor_id |-> vendor,
                           amount |-> amt, payment_type |-> pay_type,
                           source_if_cash |-> IF pay_type = "cash" THEN src ELSE "NULL"])
                    /\ AfterInsert(s, "purchase_form", pay_type = "cash" /\ src = "owner_pocket",
                          LedgerRow(amt, "Purchase (cash)", sess[s].shift_id),
                          pay_type = "cash" /\ src = "sales_cash")
    /\ UNCHANGED <<limits, today, shifts, expense_heads, vendors, expenses, vendor_payments,
                   returns, withdrawals, owner_ledger>>

\* return_form
SubmitReturn(s, vendor, amt) ==
    /\ s \in Sessions
    /\ sess[s].pc = "page"
    /\ FormRows < limits.rows
    /\ vendor \in 1..Len(vendors)
    /\ \E err \in Errs :
          /\ Spend(ErrCount(err))
          /\ IF err
               THEN /\ returns' = returns
                    /\ Fail(s, "Failed")
               ELSE /\ returns' = Append(returns,
                          [shift_id |-> sess[s].shift_id, vendor_id |-> vendor,
                           amount |-> amt])
                    /\ AfterInsert(s, "return_form", FALSE, NoData, FALSE)
    /\ UNCHANGED <<limits, today, shifts, expense_heads, vendors, expenses, vendor_payments,
                   purchases, withdrawals, owner_ledger>>

\* withdrawal_form
SubmitWithdrawal(s, amt) ==
    /\ s \in Sessions
    /\ sess[s].pc = "page"
    /\ FormRows < limits.rows
    /\ \E err \in Errs :
          /\ Spend(ErrCount(err))
          /\ IF err
               THEN /\ withdrawals' = withdrawals
                    /\ Fail(s, "Failed")
               ELSE /\ withdrawals' = Append(withdrawals,
                          [shift_id |-> sess[s].shift_id, amount |-> amt])
                    /\ AfterInsert(s, "withdrawal_form", TRUE,
                          LedgerRow(0 - amt, "Withdrawal", sess[s].shift_id), TRUE)
    /\ UNCHANGED <<limits, today, shifts, expense_heads, vendors, expenses, vendor_payments,
                   purchases, returns, owner_ledger>>

\* ------------------------------------------------------------- close_shift
\* close_shift returns to its caller: the page's Close Shift button, or a
\* direct call.
CsReturn(s, from, msgs, nf) ==
    Set(s, [from EXCEPT !.pc = IF from.via = "page" THEN "close_ret" ELSE "api_ret",
               !.msgs = @ \cup msgs, !.faults = @ + nf])

\* Any head taken for the shortage head.
AnyHeads == 1..Len(expense_heads)

\* ids of the heads named "Cash Shortage"
ShortageHeads == {h \in 1..Len(expense_heads) : expense_heads[h] = "Cash Shortage"}

\* The shortage expense with the whole expected amount instead of the gap.
ShortageOfExpected(shift_id, head, expected, closing_cash) ==
    [shift_id |-> shift_id, expense_head_id |-> head,
     amount |-> expected, source |-> "sales_cash"]

\* The shortage expense with the closing cash as its amount.
ShortageOfClosing(shift_id, head, expected, closing_cash) ==
    [shift_id |-> shift_id, expense_head_id |-> head,
     amount |-> closing_cash, source |-> "sales_cash"]

\* The expense close_shift inserts for a shortage.
ShortageExpense(shift_id, head, expected, closing_cash) ==
    [shift_id |-> shift_id, expense_head_id |-> head,
     amount |-> expected - closing_cash, source |-> "sales_cash"]

\* expected = shift.get('expected_cash') or calculate_expected_cash(shift_id)
ExpectedAtClose(shift_id, F) ==
    IF Truthy(shifts[shift_id].expected_cash)
      THEN Val(shifts[shift_id].expected_cash)
      ELSE calculate_expected_cash(shift_id, F).value

\* close_shift with a test of the status: a closed shift is left alone.
CsReadOpenOnly(s, from, shift_id, closing_cash) ==
    \E err \in Errs, F \in FailSets :
       /\ Spend(ErrCount(err) + Cardinality(F))
       /\ IF err \/ shift_id \notin ShiftIds \/ shifts[shift_id].status = "closed"
            THEN /\ F = {}
                 /\ CsReturn(s, [from EXCEPT !.shift_id = shift_id,
                                    !.closing_cash = closing_cash],
                             {"Shift not found"}, ErrCount(err))
            ELSE /\ ~err
                 /\ Truthy(shifts[shift_id].expected_cash) => F = {}
                 /\ Set(s, [from EXCEPT
                               !.pc = IF closing_cash < ExpectedAtClose(shift_id, F)
                                        THEN "cs_short" ELSE "cs_final",
                               !.shift_id = shift_id,
                               !.closing_cash = closing_cash,
                               !.expected = Some(ExpectedAtClose(shift_id, F)),
                               !.msgs = IF "shifts" \in F
                                          THEN @ \cup {"Shift not found"} ELSE @,
                               !.faults = @ + Cardinality(F)])

\* close_shift(shift_id, closing_cash) called from the session state `from`:
\* the read of the shift, the expected cash, and the comparison.
CsRead(s, from, shift_id, closing_cash) ==
    \E err \in Errs, F \in FailSets :
       /\ Spend(ErrCount(err) + Cardinality(F))
       /\ IF err \/ shift_id \notin ShiftIds
            THEN /\ F = {}
                 /\ CsReturn(s, [from EXCEPT !.shift_id = shift_id,
                                    !.closing_cash = closing_cash],
                             {"Shift not found"}, ErrCount(err))
            ELSE /\ ~err
                 /\ Truthy(shifts[shift_id].expected_cash) => F = {}
                 /\ Set(s, [from EXCEPT
                               !.pc = IF closing_cash < ExpectedAtClose(shift_id, F)
                                        THEN "cs_short" ELSE "cs_final",
                               !.shift_id = shift_id,
                               !.closing_cash = closing_cash,
                               !.expected = Some(ExpectedAtClose(shift_id, F)),
                               !.msgs = IF "shifts" \in F
                                          THEN @ \cup {"Shift not found"} ELSE @,
                               !.faults = @ + Cardinality(F)])

\* "Close Shift" on the page of an open shift.
ClickClose(s, closing) ==
    /\ s \in Sessions
    /\ sess[s].pc = "page"
    /\ CsRead(s, sess[s], sess[s].shift_id, closing)
    /\ UNCHANGED <<limits, today, store>>

\* The shortage branch without its update_expected_cash: after the insert,
\* straight to the last update.
CsShortNoUpdate(s) ==
    /\ s \in Sessions
    /\ sess[s].pc = "cs_short"
    /\ \E err \in Errs, err2 \in Errs :
          /\ ErrCount(err) + ErrCount(err2) <= failBudget
          /\ Spend(ErrCount(err) + ErrCount(err2))
          /\ IF err \/ ShortageHeads = {}
               THEN /\ ~err2
                    /\ expenses' = expenses
                    /\ CsReturn(s, sess[s], {"Cash Shortage head not found"}, ErrCount(err))
               ELSE IF err2
                      THEN /\ expenses' = expenses
                           /\ CsReturn(s, sess[s], {"Failed to record shortage"}, 1)
                      ELSE \E h \in ShortageHeads :
                              /\ expenses' = Append(expenses,
                                    ShortageExpense(sess[s].shift_id, h,
                                       Val(sess[s].expected), sess[s].closing_cash))
                              /\ Set(s, [sess[s] EXCEPT !.pc = "cs_final"])
    /\ UNCHANGED <<limits, today, shifts, expense_heads, vendors, vendor_payments, purchases,
                   returns, withdrawals, owner_ledger>>

\* closing_cash < expected: the head lookup and the insert of the shortage.
CsShort(s) ==
    /\ s \in Sessions
    /\ sess[s].pc = "cs_short"
    /\ \E err \in Errs, err2 \in Errs :
          /\ ErrCount(err) + ErrCount(err2) <= failBudget
          /\ Spend(ErrCount(err) + ErrCount(err2))
          /\ IF err \/ ShortageHeads = {}
               THEN /\ ~err2
                    /\ expenses' = expenses
                    /\ CsReturn(s, sess[s], {"Cash Shortage head not found"}, ErrCount(err))
               ELSE IF err2
                      THEN /\ expenses' = expenses
                           /\ CsReturn(s, sess[s], {"Failed to record shortage"}, 1)
                      ELSE \E h \in ShortageHeads :
                              /\ expenses' = Append(expenses,
                                    ShortageExpense(sess[s].shift_id, h,
                                       Val(sess[s].expected), sess[s].closing_cash))
                              /\ Set(s, [sess[s] EXCEPT !.pc = "uec_calc",
                                            !.ret = "cs_final"])
    /\ UNCHANGED <<limits, today, shifts, expense_heads, vendors, vendor_payments, purchases,
                   returns, withdrawals, owner_ledger>>

\* The last update of close_shift writing expected_cash as well.
ClosedAndExpected(closing_cash, now) ==
    [closing_cash_entered |-> Some(closing_cash), status |-> "closed",
     closed_at |-> Some(now), expected_cash |-> Some(closing_cash)]

\* The fields the last update of close_shift writes.
ClosedFields(closing_cash, now) ==
    [closing_cash_entered |-> Some(closing_cash), status |-> "closed",
     closed_at |-> Some(now)]

CsFinal(s) ==
    /\ s \in Sessions
    /\ sess[s].pc = "cs_final"
    /\ \E err \in Errs :
          /\ Spend(ErrCount(err))
          /\ IF err
               THEN /\ shifts' = shifts
                    /\ CsReturn(s, sess[s], {"Failed to close shift"}, 1)
               ELSE /\ shifts' = UpdateShift(sess[s].shift_id,
                                     ClosedFields(sess[s].closing_cash, today))
                    /\ CsReturn(s, sess[s], {}, 0)
    /\ UNCHANGED <<limits, today, expense_heads, vendors, txns>>

\* After close_shift returns: st.success("Shift closed!"), current_shift_id = None.
CloseRet(s) ==
    /\ s \in Sessions
    /\ sess[s].pc = "close_ret"
    /\ Set(s, Done(NoShift, sess[s].msgs \cup {"Shift closed!"}))
    /\ UNCHANGED <<limits, today, store, failBudget>>

\* ------------------------------------------------------------ direct calls
\* The functions called with any shift id, outside the page's checks.
AnyIds == 1..(MaxShifts + 1)

Direct(s) == [IdleSess(sess[s].cur) EXCEPT !.via = "api"]

CallCalculate(s, id) ==
    /\ s \in Sessions
    /\ sess[s].pc = "idle"
    /\ \E F \in FailSets :
          /\ Spend(Cardinality(F))
          /\ LET r == calculate_expected_cash(id, F)
             IN  Set(s, [Direct(s) EXCEPT
                            !.pc = "api_ret", !.shift_id = id, !.msgs = r.msgs,
                            !.result = Some(r.value), !.faults = Cardinality(F)])
    /\ UNCHANGED <<limits, today, store>>

CallUpdate(s, id) ==
    /\ s \in Sessions
    /\ sess[s].pc = "idle"
    /\ UecCalc(s, Direct(s), id, "api_ret")
    /\ UNCHANGED <<limits, today, store>>

CallClose(s, id, closing) ==
    /\ s \in Sessions
    /\ sess[s].pc = "idle"
    /\ CsRead(s, Direct(s), id, closing)
    /\ UNCHANGED <<limits, today, store>>

ApiRet(s) ==
    /\ s \in Sessions
    /\ sess[s].pc = "api_ret"
    /\ Set(s, Done(sess[s].cur, sess[s].msgs))
    /\ UNCHANGED <<limits, today, store, failBudget>>

\* ----------------------------------------------------- vendor ledger report
\* created_at is an instant: day * TicksPerDay + instant of the day.  The
\* store fills it in; the inserts of the forms do not name it.
Day(at) == at \div TicksPerDay
\* date.isoformat() compared with a timestamp: the date's midnight.
Midnight(d) == d * TicksPerDay
Stamps == 0..(Midnight(MaxDay + 1) - 1)

\* .eq("vendor_id").gte("created_at", start_date).lte("created_at", end_date)
InRange(rows, vendor_id, start_date, end_date) ==
    SelectSeq(rows, LAMBDA r : /\ r.vendor_id = vendor_id
                               /\ r.created_at >= Midnight(start_date)
                               /\ r.created_at <= Midnight(end_date))

\* What each transaction adds to the ledger list, before the balance.
PurchaseEntry(p) ==
    IF p.payment_type = "credit"
      THEN [at |-> p.created_at, Type |-> "Purchase", Debit |-> p.amount, Credit |-> 0,
            Move |-> p.amount, Mode |-> "Credit"]
      ELSE [at |-> p.created_at, Type |-> "Purchase", Debit |-> 0, Credit |-> 0,
            Move |-> 0, Mode |-> "Cash"]
PaymentEntry(p) ==
    [at |-> p.created_at, Type |-> "Payment", Debit |-> 0, Credit |-> p.amount,
     Move |-> 0 - p.amount,
     Mode |-> IF p.source = "sales_cash" THEN "Cash" ELSE "Owner Pocket"]
ReturnEntry(r) ==
    [at |-> r.created_at, Type |-> "Return", Debit |-> 0, Credit |-> r.amount,
     Move |-> 0 - r.amount, Mode |-> "N/A"]

\* The three loops in the order the code runs them: purchases, payments, returns.
EntriesOf(rows, kind) ==
    [k \in 1..Len(rows) |->
        IF kind = "Purchase" THEN PurchaseEntry(rows[k])
        ELSE IF kind = "Payment" THEN PaymentEntry(rows[k])
        ELSE ReturnEntry(rows[k])]

EntriesInCodeOrder(vendor_id, start_date, end_date) ==
    EntriesOf(InRange(purchases, vendor_id, start_date, end_date), "Purchase")
    \o EntriesOf(InRange(vendor_payments, vendor_id, start_date, end_date), "Payment")
    \o EntriesOf(InRange(returns, vendor_id, start_date, end_date), "Return")

\* A row of the ledger list: the balance is the running balance when the row
\* is appended.
LedgerLine(e, balance) ==
    [Date |-> Day(e.at), Type |-> e.Type, Debit |-> e.Debit, Credit |-> e.Credit,
     Balance |-> balance, Mode |-> e.Mode]

RECURSIVE Running(_, _)
Running(entries, balance) ==
    IF entries = <<>> THEN <<>>
    ELSE <<LedgerLine(Head(entries), balance + Head(entries).Move)>>
         \o Running(Tail(entries), balance + Head(entries).Move)

\* The opening row: Date = start_date, Balance = opening_balance.
OpeningLine(start_date, opening) ==
    [Date |-> start_date, Type |-> "Opening", Debit |-> 0, Credit |-> 0,
     Balance |-> opening, Mode |-> ""]

\* The ledger list before the sort.
LedgerList(vendor_id, start_date, end_date) ==
    <<OpeningLine(start_date, vendors[vendor_id].opening_balance)>>
    \o Running(EntriesInCodeOrder(vendor_id, start_date, end_date),
               vendors[vendor_id].opening_balance)

Orders(n) == {p \in [1..n -> 1..n] : \A i, j \in 1..n : p[i] = p[j] => i = j}

\* df.sort_values('Date'): the rows in an order of ascending Date; the default
\* sort is not stable, rows of one Date come in any order.
SortValuesDate(rows) ==
    {[k \in 1..Len(rows) |-> rows[p[k]]] : p \in
        {q \in Orders(Len(rows)) :
            \A i, j \in 1..Len(rows) : i < j => rows[q[i]].Date <= rows[q[j]].Date}}

\* Reports page, Vendor Ledger, "Generate Ledger" (no store call fails).
GenerateLedger(s, vendor_id, start_date, end_date) ==
    /\ s \in Sessions
    /\ sess[s].pc = "idle"
    /\ vendor_id \in 1..Len(vendors)
    /\ \E df \in SortValuesDate(LedgerList(vendor_id, start_date, end_date)) :
          Set(s, [Done(sess[s].cur, {}) EXCEPT
                     !.report = [vendor_id |-> vendor_id, start_date |-> start_date,
                                 end_date |-> end_date, ledger |-> df]])
    /\ UNCHANGED <<limits, today, store, failBudget>>

\* The transactions of one vendor the report is run on: each table in the
\* order of its inserts, so created_at does not decrease along a table.
Ascending(rows) == \A i, j \in 1..Len(rows) : i < j => rows[i].created_at <= rows[j].created_at
SeqsOf(S, n) == [1..n -> S]
PurchaseRowsAt ==
    {[shift_id |-> 1, vendor_id |-> 1, amount |-> amt, payment_type |-> pt,
      source_if_cash |-> IF pt = "cash" THEN "sales_cash" ELSE "NULL", created_at |-> at] :
        amt \in 1..MaxAmt, pt \in {"cash", "credit"}, at \in Stamps}
PaymentRowsAt ==
    {[shift_id |-> 1, vendor_id |-> 1, amount |-> amt, source |-> "sales_cash",
      created_at |-> at] : amt \in 1..MaxAmt, at \in Stamps}
ReturnRowsAt ==
    {[shift_id |-> 1, vendor_id |-> 1, amount |-> amt, created_at |-> at] :
        amt \in 1..MaxAmt, at \in Stamps}

ForLedger == [shifts |-> 0, rows |-> 0, days |-> 0]

\* A store with one vendor and up to MaxTxns transactions of it.
InitLedger ==
    /\ today = MaxDay
    /\ shifts = <<>>
    /\ expense_heads = <<"Rent">>
    /\ expenses = <<>>
    /\ withdrawals = <<>>
    /\ owner_ledger = <<>>
    /\ \E ob \in 0..1 : vendors = <<[name |-> "V", opening_balance |-> ob]>>
    /\ \E n1 \in 0..MaxTxns : \E n2 \in 0..(MaxTxns - n1) : \E n3 \in 0..(MaxTxns - n1 - n2) :
          /\ purchases \in {r \in SeqsOf(PurchaseRowsAt, n1) : Ascending(r)}
          /\ vendor_payments \in {r \in SeqsOf(PaymentRowsAt, n2) : Ascending(r)}
          /\ returns \in {r \in SeqsOf(ReturnRowsAt, n3) : Ascending(r)}
    /\ sess = [s \in {1} |-> IdleSess(NoShift)]
    /\ failBudget = 0
    /\ limits = ForLedger

\* One shift of one day with its transactions, for one or two sessions.
ForTwo == [shifts |-> 1, rows |-> MaxRows, days |-> 0]

\* The shift "Morning" of day 0 as get_or_create_shift made it, selected in
\* every session; one session, or MaxSessions of them on the same store.
InitTwo ==
    /\ today = 0
    /\ shifts = <<NewShift(0, "Morning", 0)>>
    /\ expense_heads = <<"Rent">>
    /\ vendors = <<[name |-> "V", opening_balance |-> 0]>>
    /\ expenses = <<>>
    /\ vendor_payments = <<>>
    /\ purchases = <<>>
    /\ returns = <<>>
    /\ withdrawals = <<>>
    /\ owner_ledger = <<>>
    /\ \E n \in {1, MaxSessions} : sess = [s \in 1..n |-> IdleSess(1)]
    /\ failBudget = 0
    /\ limits = ForTwo

\* The shifts of one day, their sale and their close, without form
\* transactions, with a store that may fail once more than MaxFail times: a
\* failure before a close and one in it.
ForRetry == [shifts |-> MaxShifts, rows |-> 0, days |-> 0]
RetryFail == MaxFail + 1

InitRetry ==
    /\ InitStore
    /\ sess = [s \in {1} |-> IdleSess(NoShift)]
    /\ failBudget = RetryFail
    /\ limits = ForRetry

\* The shifts of one day and nothing else, for sessions that click the shift
\* buttons at the same time.
ForRace == [shifts |-> MaxShifts, rows |-> 0, days |-> 0]

\* MaxSessions sessions on an empty store that never fails.
InitRace ==
    /\ InitStore
    /\ sess = [s \in 1..MaxSessions |-> IdleSess(NoShift)]
    /\ failBudget = 0
    /\ limits = ForRace

\* ---------------------------------------------------------- specifications
Amounts == 1..MaxAmt

\* What one session does on the pages.
Page(s) ==
    \/ \E name \in HeadNames : AddHead(s, name)
    \/ \E name \in ShiftNames : ClickShift(s, name)
    \/ GocPrev(s)
    \/ GocInsert(s)
    \/ ShiftRet(s)
    \/ Gate(s)
    \/ ClearSelection(s)
    \/ \E new_sale \in 0..MaxSale : ChangeSale(s, new_sale)
    \/ \E head \in 1..MaxHeads, amt \in Amounts, src \in Sources :
          SubmitExpense(s, head, amt, src)
    \/ \E vendor \in 1..Len(vendors), amt \in Amounts, src \in Sources :
          SubmitPayment(s, vendor, amt, src)
    \/ \E vendor \in 1..Len(vendors), amt \in Amounts, pay_type \in {"cash", "credit"},
          src \in Sources : SubmitPurchase(s, vendor, amt, pay_type, src)
    \/ \E vendor \in 1..Len(vendors), amt \in Amounts : SubmitReturn(s, vendor, amt)
    \/ \E amt \in Amounts : SubmitWithdrawal(s, amt)
    \/ Ledger(s)
    \/ Recompute(s)
    \/ UecWrite(s)
    \/ \E closing \in 0..MaxClosing : ClickClose(s, closing)
    \/ CsShort(s)
    \/ CsFinal(s)
    \/ CloseRet(s)
    \/ EndRun(s)

\* The functions called directly.
Api(s) ==
    \/ \E id \in AnyIds : CallCalculate(s, id)
    \/ \E id \in AnyIds : CallUpdate(s, id)
    \/ \E id \in AnyIds, closing \in 0..MaxClosing : CallClose(s, id, closing)
    \/ ApiRet(s)

Next == NextDay \/ \E s \in SessionIds : Page(s)

NextApi == NextDay \/ \E s \in SessionIds : Page(s) \/ Api(s)

\* The Reports page's vendor ledger.
Reports(s) ==
    \/ \E vendor_id \in 1..Len(vendors), start_date \in 0..MaxDay, end_date \in 0..MaxDay :
          GenerateLedger(s, vendor_id, start_date, end_date)
    \/ EndRun(s)

NextLedger == \E s \in SessionIds : Reports(s)

\* What a session does to a selected shift: the page's read of the shift, the
\* total sale, the five forms, and the owner_ledger insert and
\* update_expected_cash they call.
Recording(s) ==
    \/ Gate(s)
    \/ \E new_sale \in 0..MaxSale : ChangeSale(s, new_sale)
    \/ \E head \in 1..MaxHeads, amt \in Amounts, src \in Sources :
          SubmitExpense(s, head, amt, src)
    \/ \E vendor \in 1..Len(vendors), amt \in Amounts, src \in Sources :
          SubmitPayment(s, vendor, amt, src)
    \/ \E vendor \in 1..Len(vendors), amt \in Amounts, pay_type \in {"cash", "credit"},
          src \in Sources : SubmitPurchase(s, vendor, amt, pay_type, src)
    \/ \E vendor \in 1..Len(vendors), amt \in Amounts : SubmitReturn(s, vendor, amt)
    \/ \E amt \in Amounts : SubmitWithdrawal(s, amt)
    \/ Ledger(s)
    \/ Recompute(s)
    \/ UecWrite(s)
    \/ EndRun(s)

NextTwo == \E s \in SessionIds : Recording(s)

\* What a session does to open a shift, set its sale and close it.
Closing(s) ==
    \/ \E name \in HeadNames : AddHead(s, name)
    \/ \E name \in ShiftNames : ClickShift(s, name)
    \/ GocPrev(s)
    \/ GocInsert(s)
    \/ ShiftRet(s)
    \/ Gate(s)
    \/ ClearSelection(s)
    \/ \E new_sale \in 0..MaxSale : ChangeSale(s, new_sale)
    \/ Recompute(s)
    \/ UecWrite(s)
    \/ \E closing \in 0..MaxClosing : ClickClose(s, closing)
    \/ CsShort(s)
    \/ CsFinal(s)
    \/ CloseRet(s)
    \/ EndRun(s)

NextRetry == \E s \in SessionIds : Closing(s)

\* What a session does with the shift buttons: get_or_create_shift and the
\* selection of what it returns.
Selecting(s) ==
    \/ \E name \in ShiftNames : ClickShift(s, name)
    \/ GocPrev(s)
    \/ GocInsert(s)
    \/ ShiftRet(s)
    \/ EndRun(s)

NextRace == \E s \in SessionIds : Selecting(s)

\* The application, one session, store calls may fail.
Spec == Init /\ [][Next]_vars

\* The application, one session, no store call fails.
SpecNoFail == InitNoFail /\ [][Next]_vars

\* The application and direct calls of its functions, no store call fails.
SpecApi == InitApi /\ [][NextApi]_vars

\* The vendor ledger report over the transactions of a vendor.
SpecLedger == InitLedger /\ [][NextLedger]_vars

\* Sessions on one store, each recording on the same shift, their store
\* calls interleaved; no store call fails.
SpecTwo == InitTwo /\ [][NextTwo]_vars

\* Opening, selling and closing shifts in one session, where a store call
\* may fail before a close and another in it.
SpecRetry == InitRetry /\ [][NextRetry]_vars

\* Sessions calling get_or_create_shift on one store, their lookups and
\* inserts interleaved; no store call fails.
SpecRace == InitRace /\ [][NextRace]_vars

\* ================================================================= claims
\* opening_cash + total_sale - (sales_cash expenses + sales_cash vendor
\* payments + sales_cash cash purchases + withdrawals) over the stored rows.
Formula(shift_id) ==
    shifts[shift_id].opening_cash + shifts[shift_id].total_sale
      - ( SumAmount(SalesCash(Mine(expenses, shift_id)))
        + SumAmount(SalesCash(Mine(vendor_payments, shift_id)))
        + SumAmount(CashFromSales(Mine(purchases, shift_id)))
        + SumAmount(Mine(withdrawals, shift_id)) )

\* No handler is between its insert and the end of its recompute.
AtRest == \A s \in Sessions : sess[s].pc \in {"idle", "done", "page"}

\* C1: in one session with no store failure, after any sequence of page
\* operations every shift whose stored expected_cash is not null has
\* expected_cash equal to the formula over its stored rows.
C1_ExpectedCashIsFormula ==
    AtRest =>
      \A i \in ShiftIds :
         shifts[i].expected_cash # None => Val(shifts[i].expected_cash) = Formula(i)

\* C1 witness: a shift with a sale, one sales_cash expense and one owner_pocket
\* expense whose stored expected_cash is the sale less the sales_cash expense.
C1_Witness ==
    /\ AtRest
    /\ \E i \in ShiftIds :
          /\ shifts[i].total_sale = 1
          /\ Len(SalesCash(Mine(expenses, i))) = 1
          /\ Len(Mine(expenses, i)) = 2
          /\ shifts[i].expected_cash =
                Some(shifts[i].total_sale - SumAmount(SalesCash(Mine(expenses, i))))

\* The close_shift call of session s has come back to the page: it met no
\* store failure, reported nothing, and had found closing_cash < expected.
ShortClose(s) ==
    /\ sess[s].pc = "close_ret"
    /\ sess[s].faults = 0
    /\ sess[s].msgs = {}
    /\ sess[s].closing_cash < Val(sess[s].expected)

\* What C2 says of such a call: the last expense is the shortage, the stored
\* expected_cash is the closing cash, the shift is closed.
ShortageRecorded(s) ==
    /\ expenses # <<>>
    /\ expenses[Len(expenses)].expense_head_id \in ShortageHeads
    /\ expenses[Len(expenses)] =
          [shift_id |-> sess[s].shift_id,
           expense_head_id |-> expenses[Len(expenses)].expense_head_id,
           amount |-> Val(sess[s].expected) - sess[s].closing_cash,
           source |-> "sales_cash"]
    /\ shifts[sess[s].shift_id].expected_cash = Some(sess[s].closing_cash)
    /\ shifts[sess[s].shift_id].status = "closed"

\* The expected cash the call determined was the formula over the rows stored
\* then (the rows now less the shortage row the call added).
DeterminedFormula(s) ==
    /\ expenses # <<>>
    /\ Val(sess[s].expected) =
          Formula(sess[s].shift_id) + expenses[Len(expenses)].amount

\* Within close_shift the only insert into expenses is the one shortage row.
OneShortageInsert ==
    \A s \in Sessions :
       /\ (sess[s].pc = "cs_short" /\ sess'[s].pc = "uec_calc")
            => /\ Len(expenses') = Len(expenses) + 1
               /\ SubSeq(expenses', 1, Len(expenses)) = expenses
       /\ (sess[s].pc = "cs_short" /\ sess'[s].pc # "uec_calc") => expenses' = expenses
       /\ (sess[s].pc \in {"uec_calc", "uec_write", "cs_final", "close_ret"})
            => expenses' = expenses
       /\ (sess[s].pc = "page" /\ sess'[s].pc \in {"cs_short", "cs_final", "close_ret"})
            => expenses' = expenses

\* C2 as stated: a close_shift that runs without store failure on an open
\* shift with closing_cash below the expected cash it determines inserts one
\* "Cash Shortage" sales_cash expense of expected - closing_cash, and then the
\* stored expected_cash equals closing_cash and the shift is closed.
C2_ShortageClosesGap ==
    \A s \in Sessions : ShortClose(s) => ShortageRecorded(s)

\* C2 amended: the same, when the expected cash close_shift determined was
\* the formula over the rows stored at that time.
C2_ShortageClosesGapWhenFresh ==
    /\ [](\A s \in Sessions : ShortClose(s) /\ DeterminedFormula(s) => ShortageRecorded(s))
    /\ [][OneShortageInsert]_vars

\* C2 witness: such a call has returned, with both amounts non-zero.
C2_Witness ==
    \E s \in Sessions :
       /\ ShortClose(s)
       /\ DeterminedFormula(s)
       /\ sess[s].closing_cash > 0
       /\ shifts[sess[s].shift_id].status = "closed"

\* ---------------------------------------------------------------------- C3
\* The fields of shift rows a step changes are among `fields` of row shift_id.
OnlyFieldsChange(shift_id, fields) ==
    /\ Len(shifts') = Len(shifts)
    /\ \A i \in ShiftIds : \A k \in DOMAIN shifts[i] :
          shifts'[i][k] # shifts[i][k] => i = shift_id /\ k \in fields

\* The steps of a close_shift call that found closing_cash >= expected.
NoShortageStep ==
    \A s \in Sessions :
       /\ (sess[s].pc = "page" /\ sess'[s].pc \in {"cs_short", "cs_final"})
            => /\ UNCHANGED store
               /\ sess'[s].pc = "cs_short"
                    <=> sess'[s].closing_cash < Val(sess'[s].expected)
       /\ (sess[s].pc = "cs_final" /\ sess[s].closing_cash >= Val(sess[s].expected))
            => /\ UNCHANGED <<expense_heads, vendors, txns>>
               /\ OnlyFieldsChange(sess[s].shift_id,
                     {"closing_cash_entered", "status", "closed_at"})

\* The close_shift call of session s has come back to the page without a
\* failure, having found closing_cash >= expected.
PlainClose(s) ==
    /\ sess[s].pc = "close_ret"
    /\ sess[s].faults = 0
    /\ sess[s].msgs = {}
    /\ sess[s].closing_cash >= Val(sess[s].expected)

\* C3: a close_shift with closing_cash >= the shift's expected cash inserts no
\* expense and leaves the stored expected_cash as it was: the shift row is the
\* row the page read with only closing_cash_entered, status and closed_at
\* written, and no other table changes.
C3_NoShortageNoExpense ==
    /\ [](\A s \in Sessions : PlainClose(s) =>
            \E t \in 0..today :
               shifts[sess[s].shift_id] =
                  [sess[s].shift_info EXCEPT
                      !.closing_cash_entered = Some(sess[s].closing_cash),
                      !.status = "closed", !.closed_at = Some(t)])
    /\ [][NoShortageStep]_vars

\* C3 witness: such a close has returned with more cash than expected, the
\* stored expected_cash still the recomputed one.
C3_Witness ==
    \E s \in Sessions :
       /\ PlainClose(s)
       /\ sess[s].closing_cash > Val(sess[s].expected)
       /\ shifts[sess[s].shift_id].status = "closed"
       /\ shifts[sess[s].shift_id].expected_cash = Some(0)
       /\ shifts[sess[s].shift_id].closing_cash_entered = Some(sess[s].closing_cash)

\* ---------------------------------------------------------------------- C4
StatusStep ==
    /\ Len(shifts') >= Len(shifts)
    /\ \A i \in ShiftIds : shifts[i].status = "closed" => shifts'[i].status = "closed"
    /\ \A i \in 1..Len(shifts') : i \notin ShiftIds => shifts'[i].status = "open"

\* C4: a shift is created with status open, and a closed shift is never open
\* again.
C4_StatusOnlyOpenToClosed ==
    /\ [](\A i \in ShiftIds : shifts[i].status \in {"open", "closed"})
    /\ [][StatusStep]_vars

\* C4 witness: a shift was closed and a later shift created after it is open.
C4_Witness ==
    \E i, j \in ShiftIds :
       /\ i < j
       /\ shifts[i].status = "closed"
       /\ shifts[i].closed_at # None
       /\ shifts[j].status = "open"
       /\ shifts[j].date > Val(shifts[i].closed_at)

\* ---------------------------------------------------------------------- C5
OnePerPair ==
    \A i, j \in ShiftIds :
       (shifts[i].date = shifts[j].date /\ shifts[i].shift_name = shifts[j].shift_name)
          => i = j

\* The id get_or_create_shift returns is of a row with the date and name asked.
ReturnsThePair(s) ==
    (sess[s].pc = "shift_ret" /\ sess[s].result # None)
       => /\ Val(sess[s].result) \in ShiftIds
          /\ shifts[Val(sess[s].result)].date = sess[s].date
          /\ shifts[Val(sess[s].result)].shift_name = sess[s].shift_name

\* A call for a pair that exists returns at its lookup and writes nothing.
ExistingPairStep ==
    \A s \in Sessions : \A name \in ShiftNames :
       (sess[s].pc = "idle" /\ sess'[s].pc \in {"goc_prev", "shift_ret"}
          /\ sess'[s].shift_name = name
          /\ \E i \in ShiftIds : shifts[i].date = today /\ shifts[i].shift_name = name)
       => /\ UNCHANGED store
          /\ sess'[s].pc = "shift_ret"
          /\ sess'[s].result # None
               => /\ Val(sess'[s].result) \in ShiftIds
                  /\ shifts[Val(sess'[s].result)].date = today
                  /\ shifts[Val(sess'[s].result)].shift_name = name

\* C5: with get_or_create_shift calls one after another, shifts holds at most
\* one row per (date, shift_name), and a call for an existing pair returns
\* the id of the existing row and writes nothing.
C5_OneShiftPerDateAndName ==
    /\ [](OnePerPair /\ \A s \in Sessions : ReturnsThePair(s))
    /\ [][ExistingPairStep]_vars

\* C5 witness: a call has returned the id of a shift that existed before it
\* (the shift already has a sale), another shift of the same name existing on
\* another date.
C5_Witness ==
    \E s \in Sessions : \E i, j \in ShiftIds :
       /\ sess[s].pc = "shift_ret"
       /\ sess[s].result = Some(i)
       /\ shifts[i].total_sale # 0
       /\ j # i
       /\ shifts[j].shift_name = shifts[i].shift_name

\* ---------------------------------------------------------------------- C6
\* expected_cash if not null, else closing_cash_entered if not null, else 0.
FirstNonNull(last) ==
    IF last.expected_cash # None THEN Val(last.expected_cash)
    ELSE IF last.closing_cash_entered # None THEN Val(last.closing_cash_entered)
    ELSE 0

\* C6: when get_or_create_shift creates a shift, the opening cash it inserts
\* is the preceding same-day shift's expected_cash whenever that is not null
\* (zero included), else its closing_cash_entered, else 0, and 0 when there
\* is no preceding shift.
C6_OpeningIsFirstNonNull ==
    \A s \in Sessions :
       sess[s].pc = "goc_insert" =>
          IF LastPrev(sess[s].date, sess[s].shift_name) = {}
            THEN sess[s].opening = 0
            ELSE \E i \in LastPrev(sess[s].date, sess[s].shift_name) :
                    sess[s].opening = FirstNonNull(shifts[i])

\* ---------------------------------------------------------------------- C7
\* The order of the shifts in a day.
Rank == [Morning |-> 1, Evening |-> 2, Night |-> 3]

\* The same-day shifts earlier in the day than `name`, and the latest of them.
EarlierShifts(d, name) ==
    {i \in ShiftIds : shifts[i].date = d /\ Rank[shifts[i].shift_name] < Rank[name]}
LatestEarlier(d, name) ==
    {i \in EarlierShifts(d, name) :
        \A j \in EarlierShifts(d, name) :
           Rank[shifts[j].shift_name] <= Rank[shifts[i].shift_name]}

\* C7: the previous shift get_or_create_shift takes the opening cash from
\* follows Morning < Evening < Night: none for Morning, Morning for Evening,
\* Evening else Morning for Night.
C7_PreviousIsEarlierInDay ==
    \A s \in Sessions :
       sess[s].pc = "goc_insert" =>
          IF LatestEarlier(sess[s].date, sess[s].shift_name) = {}
            THEN sess[s].opening = 0
            ELSE \E i \in LatestEarlier(sess[s].date, sess[s].shift_name) :
                    sess[s].opening = OpeningFrom(shifts[i])

\* ---------------------------------------------------------------------- C8
NoShortageHead == \A h \in 1..Len(expense_heads) : expense_heads[h] # "Cash Shortage"

\* The step of close_shift that looks the head up, when there is none.
MissingHeadStep ==
    \A s \in Sessions :
       (sess[s].pc = "cs_short" /\ sess'[s] # sess[s] /\ NoShortageHead)
          => /\ UNCHANGED store
             /\ sess'[s].pc \in {"close_ret", "api_ret"}
             /\ "Cash Shortage head not found" \in sess'[s].msgs

\* C8: with no head named "Cash Shortage", a close_shift that finds
\* closing_cash < expected returns without a write: no expense is inserted
\* and the shift row is as the page read it, status open.
C8_MissingHeadAborts ==
    /\ [](\A s \in Sessions :
            (sess[s].pc = "close_ret" /\ NoShortageHead
               /\ "Cash Shortage head not found" \in sess[s].msgs)
            => /\ shifts[sess[s].shift_id] = sess[s].shift_info
               /\ shifts[sess[s].shift_id].status = "open")
    /\ [][MissingHeadStep]_vars

\* C8 witness: close_shift has returned so from a shortage, no store call
\* having failed, and the shift is open with a stored expected_cash.
C8_Witness ==
    \E s \in Sessions :
       /\ sess[s].pc = "close_ret"
       /\ NoShortageHead
       /\ sess[s].faults = 0
       /\ sess[s].msgs = {"Cash Shortage head not found"}
       /\ sess[s].closing_cash < Val(sess[s].expected)
       /\ shifts[sess[s].shift_id].status = "open"
       /\ shifts[sess[s].shift_id].expected_cash = sess[s].expected
       /\ shifts[sess[s].shift_id].closing_cash_entered = None

\* ---------------------------------------------------------------------- C9
\* C9: a call of calculate_expected_cash, update_expected_cash or close_shift
\* with a shift id that is not in the store comes back with the error
\* "Shift not found" and with no amount returned (calculate_expected_cash
\* does not return 0).
C9_MissingShiftGivesNoAmount ==
    \A s \in Sessions :
       (sess[s].pc = "api_ret" /\ sess[s].shift_id \notin ShiftIds)
          => /\ sess[s].result = None
             /\ "Shift not found" \in sess[s].msgs

\* The steps of update_expected_cash and close_shift for a missing id.
MissingShiftWritesNothing ==
    \A s \in Sessions :
       (sess[s].via = "api" /\ sess[s].pc \in {"uec_write", "cs_short", "cs_final"}
          /\ sess[s].shift_id \notin ShiftIds)
       => UNCHANGED store

\* The part of C9 about writes: update_expected_cash and close_shift called
\* with an id that is not in the store leave the store as it is.
C9_MissingShiftWritesNothing == [][MissingShiftWritesNothing]_vars

\* C9 witness of the write part: update_expected_cash has returned from a
\* call with an id that is not in the store, other shifts being there.
C9_WritesWitness ==
    \E s \in Sessions :
       /\ sess[s].pc = "api_ret"
       /\ sess[s].shift_id \notin ShiftIds
       /\ sess[s].computed = Some(0)
       /\ shifts # <<>>

\* ---------------------------------------------------------------------- C10
\* The steps of get_or_create_shift and of the button handler after it.
FailedCreateStep ==
    \A s \in Sessions :
       /\ (sess[s].pc \in {"idle", "goc_prev", "goc_insert"}
             /\ sess'[s].pc = "shift_ret" /\ sess'[s].faults > 0)
            => /\ shifts' = shifts
               /\ sess'[s].result = None
       /\ (sess[s].pc \in {"idle", "goc_prev"}
             /\ sess'[s].pc \in {"goc_prev", "goc_insert", "shift_ret"})
            => shifts' = shifts
       /\ (sess[s].pc = "shift_ret" /\ sess[s].result = None)
            => sess'[s].cur = sess[s].cur

\* C10: when a store call of get_or_create_shift fails, the call returns no
\* id and leaves shifts unchanged, and the page does not set
\* current_shift_id: the selection is always no shift or a shift in the store.
C10_FailedCreateSelectsNothing ==
    /\ [](\A s \in Sessions :
            /\ (sess[s].pc = "shift_ret" /\ sess[s].faults > 0) => sess[s].result = None
            /\ sess[s].cur \in ShiftIds \cup {NoShift})
    /\ [][FailedCreateStep]_vars

\* C10 witness: the insert of a new shift failed while another shift was
\* selected, and the call is back at the button handler.
C10_Witness ==
    \E s \in Sessions :
       /\ sess[s].pc = "shift_ret"
       /\ sess[s].faults > 0
       /\ "Failed to create shift" \in sess[s].msgs
       /\ sess[s].result = None
       /\ sess[s].cur \in ShiftIds
       /\ ShiftsFor(sess[s].date, sess[s].shift_name) = {}

\* ---------------------------------------------------------------------- C11
\* The entries in an order of ascending created_at.
Chronological(entries) ==
    {[k \in 1..Len(entries) |-> entries[p[k]]] : p \in
        {q \in Orders(Len(entries)) :
            \A i, j \in 1..Len(entries) : i < j => entries[q[i]].at <= entries[q[j]].at}}

\* The ledgers that are a fold in chronological order: the opening row, then
\* the fetched transactions of all three kinds by ascending created_at, each
\* row's Balance the previous Balance + Debit - Credit.
ChronologicalFolds(vendor_id, start_date, end_date) ==
    {<<OpeningLine(start_date, vendors[vendor_id].opening_balance)>>
       \o Running(e, vendors[vendor_id].opening_balance) :
          e \in Chronological(EntriesInCodeOrder(vendor_id, start_date, end_date))}

\* C11: the vendor ledger shown is a fold in chronological order over the
\* purchases, payments and returns merged: the Opening Balance row first,
\* then rows in ascending creation-timestamp order across the three kinds,
\* each Balance the previous row's Balance + Debit - Credit.
C11_LedgerIsChronologicalFold ==
    \A s \in Sessions :
       sess[s].report.ledger # <<>> =>
          sess[s].report.ledger \in
             ChronologicalFolds(sess[s].report.vendor_id, sess[s].report.start_date,
                                sess[s].report.end_date)

\* ---------------------------------------------------------------------- C12
CreditPurchases(rows) == SelectSeq(rows, LAMBDA r : r.payment_type = "credit")

\* opening_balance + credit purchases - payments - returns of the fetched rows.
ClosingBalance(vendor_id, start_date, end_date) ==
    vendors[vendor_id].opening_balance
      + SumAmount(CreditPurchases(InRange(purchases, vendor_id, start_date, end_date)))
      - SumAmount(InRange(vendor_payments, vendor_id, start_date, end_date))
      - SumAmount(InRange(returns, vendor_id, start_date, end_date))

\* C12: the Balance on the last row of the vendor ledger is opening_balance +
\* credit purchases - payments - returns of the transactions in the report,
\* whatever cash purchases there are.
C12_LastBalanceIsClosingBalance ==
    \A s \in Sessions :
       sess[s].report.ledger # <<>> =>
          sess[s].report.ledger[Len(sess[s].report.ledger)].Balance =
             ClosingBalance(sess[s].report.vendor_id, sess[s].report.start_date,
                            sess[s].report.end_date)

\* ---------------------------------------------------------------------- C13
\* The rows of a vendor created at any time of a day from start_date to end_date.
OnDays(rows, vendor_id, start_date, end_date) ==
    SelectSeq(rows, LAMBDA r : /\ r.vendor_id = vendor_id
                               /\ Day(r.created_at) >= start_date
                               /\ Day(r.created_at) <= end_date)

\* C13: the date range of the vendor ledger is inclusive at both ends: every
\* purchase, payment and return of the vendor created at any time of day on
\* start_date, on end_date or between them has its row in the ledger.
C13_RangeInclusiveBothEnds ==
    \A s \in Sessions :
       sess[s].report.ledger # <<>> =>
          LET v == sess[s].report.vendor_id
              a == sess[s].report.start_date
              b == sess[s].report.end_date
          IN  Len(sess[s].report.ledger) - 1 =
                 Len(OnDays(purchases, v, a, b)) + Len(OnDays(vendor_payments, v, a, b))
                   + Len(OnDays(returns, v, a, b))


\* Session s is inside the handler of the submitted withdrawal_form, after its
\* insert into withdrawals.
InWithdrawal(s) == sess[s].form = "withdrawal_form"

\* The amount of the withdrawal the running handler inserted.
Withdrawn == withdrawals[Len(withdrawals)].amount

\* The stored expected cash of shift i; before the first recompute, when the
\* column is still null, the formula over the rows stored before the
\* withdrawal of x.
StoredBefore(i, x) ==
    IF shifts[i].expected_cash # None THEN Val(shifts[i].expected_cash)
    ELSE Formula(i) + x

\* The steps of one Add Withdrawal: the insert adds one withdrawals row of the
\* shift and no owner_ledger row; record_owner_ledger appends the one row of
\* -X that references the shift; nothing else in the handler touches
\* owner_ledger; and the write of update_expected_cash stores the expected
\* cash of before less X.
WithdrawalSteps ==
    \A s \in Sessions :
       /\ (sess[s].pc = "page" /\ InWithdrawal(s)')
            => /\ Len(withdrawals') = Len(withdrawals) + 1
               /\ SubSeq(withdrawals', 1, Len(withdrawals)) = withdrawals
               /\ withdrawals'[Len(withdrawals')].shift_id = sess[s].shift_id
               /\ owner_ledger' = owner_ledger
               /\ shifts' = shifts
       /\ (InWithdrawal(s) /\ sess[s].pc = "ledger" /\ sess'[s] # sess[s])
            => /\ owner_ledger' = Append(owner_ledger,
                      [amount |-> 0 - Withdrawn, description |-> "Withdrawal",
                       shift_id |-> sess[s].shift_id])
               /\ shifts' = shifts
       /\ (InWithdrawal(s) /\ sess[s].pc # "ledger")
            => owner_ledger' = owner_ledger
       /\ (InWithdrawal(s) /\ sess[s].pc = "uec_calc") => shifts' = shifts
       /\ (InWithdrawal(s) /\ sess[s].pc = "uec_write" /\ sess'[s] # sess[s])
            => /\ sess'[s].pc = "done"
               /\ shifts' = [shifts EXCEPT ![sess[s].shift_id].expected_cash =
                                Some(StoredBefore(sess[s].shift_id, Withdrawn) - Withdrawn)]
       /\ InWithdrawal(s) => withdrawals' = withdrawals

\* C14: with no store failure, each successful Add Withdrawal of X appends
\* exactly one owner_ledger entry of -X that references the shift and reduces
\* the shift's stored expected cash by exactly X.
C14_WithdrawalLedgerAndCash == [][WithdrawalSteps]_vars

\* C14 witness: the handler has ended after a withdrawal of 1 from a shift
\* with a sale of 1: one owner_ledger row of -1 for the shift, and the stored
\* expected cash gone from opening + 1 to opening.
C14_Witness ==
    \E s \in Sessions, i \in ShiftIds :
       /\ sess[s].pc = "done"
       /\ sess[s].cur = i
       /\ shifts[i].total_sale = 1
       /\ expenses = <<>> /\ vendor_payments = <<>> /\ purchases = <<>>
       /\ withdrawals = <<[shift_id |-> i, amount |-> 1]>>
       /\ owner_ledger = <<[amount |-> 0 - 1, description |-> "Withdrawal", shift_id |-> i]>>
       /\ shifts[i].expected_cash = Some(shifts[i].opening_cash)

\* Table `rows` gets one more row at its end in this step.
Appended(rows_before, rows_after) ==
    /\ Len(rows_after) = Len(rows_before) + 1
    /\ SubSeq(rows_after, 1, Len(rows_before)) = rows_before

\* This step is a successful insert of a row the formula leaves out: an
\* owner_pocket expense or vendor payment, an owner_pocket cash purchase, a
\* credit purchase, or a return.
ExcludedInsert ==
    \/ Appended(expenses, expenses') /\ expenses'[Len(expenses')].source = "owner_pocket"
    \/ /\ Appended(vendor_payments, vendor_payments')
       /\ vendor_payments'[Len(vendor_payments')].source = "owner_pocket"
    \/ /\ Appended(purchases, purchases')
       /\ \/ purchases'[Len(purchases')].payment_type = "credit"
          \/ /\ purchases'[Len(purchases')].payment_type = "cash"
             /\ purchases'[Len(purchases')].source_if_cash = "owner_pocket"
    \/ Appended(returns, returns')

\* What calculate_expected_cash gives for every shift when its reads succeed.
ExpectedOfAll == [i \in ShiftIds |-> calculate_expected_cash(i, {}).value]

\* An excluded insert, and the owner_ledger insert that follows one, leave
\* the result of calculate_expected_cash as it was, for every shift.
ExcludedInsertStep ==
    /\ ExcludedInsert => ExpectedOfAll' = ExpectedOfAll
    /\ owner_ledger' # owner_ledger => ExpectedOfAll' = ExpectedOfAll

\* C15: recording an owner_pocket expense, an owner_pocket vendor payment, an
\* owner_pocket cash purchase, a credit purchase or a return leaves the result
\* of calculate_expected_cash for the shift unchanged.
C15_ExcludedRowsLeaveExpectedCash == [][ExcludedInsertStep]_vars

\* C15 witness: a shift with a sale of 1 holds two rows of the excluded kinds
\* and an owner_ledger row, and calculate_expected_cash still gives opening
\* cash plus the sale.
C15_Witness ==
    \E i \in ShiftIds :
       /\ AtRest
       /\ shifts[i].total_sale = 1
       /\ Len(Mine(expenses, i)) + Len(Mine(vendor_payments, i))
            + Len(Mine(purchases, i)) + Len(Mine(returns, i)) = 2
       /\ \A k \in 1..Len(expenses) : expenses[k].source = "owner_pocket"
       /\ \A k \in 1..Len(vendor_payments) : vendor_payments[k].source = "owner_pocket"
       /\ \A k \in 1..Len(purchases) : purchases[k].source_if_cash # "sales_cash"
       /\ owner_ledger # <<>>
       /\ withdrawals = <<>>
       /\ calculate_expected_cash(i, {}).value = shifts[i].opening_cash + 1

\* update_expected_cash(shift_id) is what session s does next: it is at the
\* call, or at the record_owner_ledger call that precedes it in the handler.
UpdateIsNext(s, shift_id) ==
    /\ sess[s].shift_id = shift_id
    /\ \/ sess[s].pc = "uec_calc"
       \/ sess[s].pc = "ledger" /\ sess[s].ret = "uec"

\* update_expected_cash(shift_id) is under way in session s.
UpdateRunning(s) ==
    \/ sess[s].pc \in {"uec_calc", "uec_write"}
    \/ sess[s].pc = "ledger" /\ sess[s].ret = "uec"

\* The shift of the row this step appended to a table the formula sums, if it
\* appended one: an expense, a vendor payment, a cash purchase from sales
\* cash, or a withdrawal.
InsertedFor ==
    {i \in ShiftIds :
        \/ Appended(expenses, expenses') /\ expenses'[Len(expenses')].shift_id = i
        \/ /\ Appended(vendor_payments, vendor_payments')
           /\ vendor_payments'[Len(vendor_payments')].shift_id = i
        \/ /\ Appended(purchases, purchases')
           /\ purchases'[Len(purchases')].shift_id = i
           /\ purchases'[Len(purchases')].payment_type = "cash"
           /\ purchases'[Len(purchases')].source_if_cash = "sales_cash"
        \/ Appended(withdrawals, withdrawals') /\ withdrawals'[Len(withdrawals')].shift_id = i}

\* The shifts whose total_sale this step changed.
SaleChangedFor == {i \in ShiftIds : shifts'[i].total_sale # shifts[i].total_sale}

\* The order of the steps of an operation: an insert or a sale change leaves
\* its session with update_expected_cash of that shift next; the session goes
\* from the owner_ledger insert to the calculation, from the calculation to
\* the write of the value calculated, and from the write on; no run starts
\* (and reads the shift) while an update is under way; and the total sale
\* update is sent only with a value other than the stored one.
UpdateFollows ==
    /\ \A i \in InsertedFor \cup SaleChangedFor :
          \E s \in Sessions : sess'[s] # sess[s] /\ UpdateIsNext(s, i)'
    /\ \A s \in Sessions :
          /\ (sess[s].pc = "ledger" /\ sess[s].ret = "uec" /\ sess'[s] # sess[s])
               => /\ sess'[s].pc = "uec_calc"
                  /\ sess'[s].shift_id = sess[s].shift_id
                  /\ shifts' = shifts
          /\ (sess[s].pc = "uec_calc" /\ sess'[s] # sess[s])
               => /\ sess'[s].pc = "uec_write"
                  /\ sess'[s].shift_id = sess[s].shift_id
                  /\ \E F \in SUBSET Tables :
                        sess'[s].computed =
                           Some(calculate_expected_cash(sess[s].shift_id, F).value)
                  /\ store' = store
          /\ (sess[s].pc = "uec_write" /\ sess'[s] # sess[s])
               => \/ shifts' = UpdateShift(sess[s].shift_id,
                                           [expected_cash |-> sess[s].computed])
                  \/ shifts' = shifts /\ sess'[s].msgs # sess[s].msgs
          /\ UpdateRunning(s) =>
                \A o \in Sessions : sess[o].pc = "idle" => sess'[o].pc = "idle"
          /\ (sess[s].pc = "page" /\ sess'[s].form = "total_sale")
               => sess[s].shift_id \in SaleChangedFor

\* C16: every successful insert of an Expense, a VendorPayment, a sales_cash
\* cash Purchase or a Withdrawal, and every successful change of total_sale,
\* is followed by update_expected_cash for that shift within the same
\* operation, before any other operation reads the shift; and total_sale is
\* written only when the entered value differs from the stored one.
C16_UpdateFollowsEveryChange == [][UpdateFollows]_vars

\* C16 witness: a handler has ended whose update_expected_cash stored the
\* value for a shift with a changed sale, an expense and a withdrawal.
C16_Witness ==
    \E s \in Sessions, i \in ShiftIds :
       /\ sess[s].pc = "done"
       /\ sess[s].cur = i
       /\ sess[s].msgs = {}
       /\ shifts[i].total_sale = 1
       /\ Len(Mine(expenses, i)) = 1
       /\ Len(Mine(withdrawals, i)) = 1
       /\ shifts[i].status = "open"
       /\ shifts[i].expected_cash = Some(calculate_expected_cash(i, {}).value)

\* update_expected_cash in session s holds a value other than the formula
\* over the stored rows of its shift: a read of calculate_expected_cash failed.
HoldsFailedRead(s) ==
    /\ sess[s].pc = "uec_write"
    /\ sess[s].shift_id \in ShiftIds
    /\ sess[s].computed # Some(Formula(sess[s].shift_id))

\* After a failed read update_expected_cash writes nothing, and a stored
\* expected_cash changes only to the formula over the stored rows.
FailedReadStep ==
    /\ \A s \in Sessions : HoldsFailedRead(s) => shifts' = shifts
    /\ \A i \in ShiftIds :
          shifts'[i].expected_cash # shifts[i].expected_cash
             => shifts'[i].expected_cash = Some(Formula(i)')

\* C17: if a store read inside calculate_expected_cash fails (the shift row,
\* or any of the expenses, vendor_payments, purchases or withdrawals queries),
\* update_expected_cash does not persist a value: expected_cash is left
\* unchanged, so the stored expected_cash never differs from the formula over
\* the stored records because of a failed read.
C17_FailedReadPersistsNothing == [][FailedReadStep]_vars

\* Every session's run has ended: no insert-then-recompute sequence is under way.
AllFinished == \A s \in Sessions : sess[s].pc \in {"idle", "done"}

\* The stored expected_cash of shift i is not the formula over the stored rows.
Stale(i) ==
    /\ shifts[i].expected_cash # None
    /\ Val(shifts[i].expected_cash) # Formula(i)

\* C18: with two sessions running insert-then-recompute sequences on the same
\* shift, their store steps interleaved, a state is reachable in which both
\* have finished and the stored expected_cash differs from the formula over
\* the stored records (C18_Witness); with a single session no such state is
\* reachable (this invariant).
C18_StaleOnlyWithTwoSessions ==
    (Cardinality(Sessions) = 1 /\ AllFinished) => \A i \in ShiftIds : ~Stale(i)

\* C18 witness: two sessions have each added a sales_cash expense of 1 to the
\* shift and finished, and the stored expected_cash counts only one of them.
C18_Witness ==
    /\ Cardinality(Sessions) = 2
    /\ AllFinished
    /\ \E i \in ShiftIds :
          /\ Stale(i)
          /\ Len(SalesCash(Mine(expenses, i))) = 2
          /\ FormRows = 2
          /\ shifts[i].expected_cash = Some(Formula(i) + 1)

\* In this step session s calls close_shift directly, on shift i with
\* closing_cash c.
ClosesDirectly(s, i, c) ==
    /\ sess[s].pc = "idle"
    /\ sess'[s].via = "api"
    /\ sess'[s].pc \in {"cs_short", "cs_final", "api_ret"}
    /\ sess'[s].result = None
    /\ sess'[s].shift_id = i
    /\ sess'[s].closing_cash = c

\* A close_shift called directly is under way in session s on a closed shift.
Reclosing(s) ==
    /\ sess[s].via = "api"
    /\ sess[s].shift_id \in ShiftIds
    /\ shifts[sess[s].shift_id].status = "closed"

\* The steps of close_shift on a closed shift: with closing_cash below the
\* stored expected_cash the call goes on to the shortage; it inserts the
\* "Cash Shortage" expense of expected - closing_cash; update_expected_cash
\* stores the formula over the rows with that expense; and the last update
\* overwrites closing_cash_entered and closed_at.
RecloseSteps ==
    \A s \in Sessions :
       /\ \A i \in ShiftIds, c \in 0..MaxClosing :
             ( /\ ClosesDirectly(s, i, c)
               /\ shifts[i].status = "closed"
               /\ shifts[i].expected_cash # None
               /\ c < Val(shifts[i].expected_cash) )
               => /\ sess'[s].pc = "cs_short"
                  /\ sess'[s].expected = shifts[i].expected_cash
       /\ ( /\ Reclosing(s)
            /\ sess[s].pc = "cs_short"
            /\ \E h \in 1..Len(expense_heads) : expense_heads[h] = "Cash Shortage"
            /\ sess'[s] # sess[s] )
            => /\ Appended(expenses, expenses')
               /\ \E h \in 1..Len(expense_heads) :
                     /\ expense_heads[h] = "Cash Shortage"
                     /\ expenses'[Len(expenses')] =
                           [shift_id |-> sess[s].shift_id, expense_head_id |-> h,
                            amount |-> Val(sess[s].expected) - sess[s].closing_cash,
                            source |-> "sales_cash"]
               /\ sess'[s].pc = "uec_calc"
       /\ ( /\ Reclosing(s)
            /\ sess[s].pc = "uec_write"
            /\ sess[s].ret = "cs_final"
            /\ sess'[s] # sess[s] )
            => /\ shifts' = [shifts EXCEPT ![sess[s].shift_id].expected_cash =
                                Some(Formula(sess[s].shift_id))]
               /\ sess'[s].pc = "cs_final"
       /\ (Reclosing(s) /\ sess[s].pc = "cs_final" /\ sess'[s] # sess[s])
            => shifts' = [shifts EXCEPT
                            ![sess[s].shift_id].closing_cash_entered =
                                Some(sess[s].closing_cash),
                            ![sess[s].shift_id].closed_at = Some(today)]

\* C19: close_shift does not check the shift's status: called on a shift that
\* is already closed with a closing_cash below the stored expected_cash, it
\* inserts another "Cash Shortage" expense, recomputes expected_cash, and
\* overwrites closing_cash_entered and closed_at.
C19_CloseShiftIgnoresStatus == [][RecloseSteps]_vars

\* C19 witness: where no form adds a row, a shift closed with a shortage at
\* closing cash 1 has been closed again by a direct call with closing cash 0:
\* it holds the two "Cash Shortage" expenses of the two calls and its
\* closing_cash_entered went from 1 to 0.
C19_Witness ==
    \E s \in Sessions :
       /\ limits = ForReclose
       /\ sess[s].pc = "api_ret"
       /\ Reclosing(s)
       /\ sess[s].msgs = {}
       /\ sess[s].expected = Some(1)
       /\ sess[s].closing_cash = 0
       /\ Len(Mine(expenses, sess[s].shift_id)) = 2
       /\ \A k \in 1..Len(expenses) :
             expense_heads[expenses[k].expense_head_id] = "Cash Shortage"
       /\ shifts[sess[s].shift_id].closing_cash_entered = Some(0)
       /\ shifts[sess[s].shift_id].expected_cash = Some(0)

\* The rows of shift i in the five tables the forms insert into.
RowsOf(i) ==
    <<Mine(expenses, i), Mine(vendor_payments, i), Mine(purchases, i),
      Mine(returns, i), Mine(withdrawals, i)>>

\* In this step session s calls close_shift on shift i from the page.
ClosesFromPage(s, i) ==
    /\ sess[s].pc = "page"
    /\ sess'[s].pc \in {"cs_short", "cs_final", "close_ret"}
    /\ sess'[s].shift_id = i

\* A step from a state in which shift i is closed inserts no row for it,
\* leaves its total_sale and expected_cash, and calls no close_shift on it; no
\* form, update_expected_cash or close_shift is under way on it.
ClosedShiftStep ==
    \A i \in ShiftIds :
       shifts[i].status = "closed"
          => /\ RowsOf(i)' = RowsOf(i)
             /\ shifts'[i].total_sale = shifts[i].total_sale
             /\ shifts'[i].expected_cash = shifts[i].expected_cash
             /\ shifts'[i].status = "closed"
             /\ \A s \in Sessions :
                   /\ ~ClosesFromPage(s, i)
                   /\ sess'[s].shift_id = i => sess'[s].pc \in {"close_ret", "shift_ret"}

\* C20: in a single session, once a shift's status is closed, the recording
\* page never again inserts an Expense, VendorPayment, Purchase, Return or
\* Withdrawal for it, never changes its total_sale or expected_cash, and
\* never calls close_shift on it again.
C20_ClosedShiftIsLeftAlone == [][ClosedShiftStep]_vars

\* C20 witness: a closed shift with a sale and an expense is selected again
\* and the page has answered that it is closed.
C20_Witness ==
    \E s \in Sessions, i \in ShiftIds :
       /\ sess[s].pc = "done"
       /\ sess[s].cur = i
       /\ "This shift is closed" \in sess[s].msgs
       /\ shifts[i].status = "closed"
       /\ shifts[i].total_sale = 1
       /\ Mine(expenses, i) # <<>>

\* Shift i is closed with an expected cash stored.
ClosedWithExpected(i) ==
    /\ shifts[i].status = "closed"
    /\ shifts[i].expected_cash # None

\* C21: in every state reachable in a single session without store failures,
\* every closed shift whose expected_cash is non-null has
\* closing_cash_entered >= expected_cash, with equality whenever a shortage
\* expense was recorded at its close.
C21_ClosingCoversExpected ==
    /\ \A i \in ShiftIds :
          ClosedWithExpected(i)
             => /\ shifts[i].closing_cash_entered # None
                /\ Val(shifts[i].closing_cash_entered) >= Val(shifts[i].expected_cash)
    /\ \A s \in Sessions :
          ShortClose(s)
             => /\ ClosedWithExpected(sess[s].shift_id)
                /\ shifts[sess[s].shift_id].closing_cash_entered =
                      shifts[sess[s].shift_id].expected_cash

\* C21 witness: one shift was closed with more cash than expected, and the
\* close of another has just recorded a shortage down to a closing cash of 1.
C21_Witness ==
    \E s \in Sessions, j \in ShiftIds :
       /\ ShortClose(s)
       /\ sess[s].closing_cash = 1
       /\ j # sess[s].shift_id
       /\ ClosedWithExpected(j)
       /\ Val(shifts[j].closing_cash_entered) > Val(shifts[j].expected_cash)

\* The page's step after close_shift has returned to it: success is reported
\* and the selection cleared when the shift is closed, and when it is not,
\* no success is reported and the shift stays selected.
CloseReportStep ==
    \A s \in Sessions :
       (sess[s].pc = "close_ret" /\ sess'[s] # sess[s])
          => IF /\ sess[s].shift_id \in ShiftIds
                /\ shifts[sess[s].shift_id].status = "closed"
               THEN /\ "Shift closed!" \in sess'[s].msgs
                    /\ sess'[s].cur = NoShift
               ELSE /\ "Shift closed!" \notin sess'[s].msgs
                    /\ sess'[s].cur = sess[s].cur

\* C22: the recording page reports "Shift closed!" and clears the current
\* shift selection only when close_shift actually set the shift's status to
\* closed; when close_shift aborts (shift not found, "Cash Shortage" head
\* missing, shortage insert failed, or the final update failed) no success is
\* reported and the shift stays selected.
C22_SuccessOnlyWhenClosed == [][CloseReportStep]_vars

\* The rows paid from the owner's pocket.
OwnerPocket(rows) == SelectSeq(rows, LAMBDA r : r.source = "owner_pocket")
CashFromOwner(rows) ==
    SelectSeq(rows, LAMBDA r : r.payment_type = "cash" /\ r.source_if_cash = "owner_pocket")

\* What the owner put in less what the owner took out, over the stored rows.
OwnerNet ==
    SumAmount(OwnerPocket(expenses)) + SumAmount(OwnerPocket(vendor_payments))
      + SumAmount(CashFromOwner(purchases)) - SumAmount(withdrawals)

\* No handler stands between its insert and its record_owner_ledger call.
NoLedgerPending == \A s \in Sessions : sess[s].pc # "ledger"

\* This step appended a row that gets no owner ledger entry: a sales_cash
\* expense (the shortage of close_shift is one) or vendor payment, a credit
\* purchase or a cash purchase from sales cash, or a return.
InsertWithoutEntry ==
    \/ Appended(expenses, expenses') /\ expenses'[Len(expenses')].source = "sales_cash"
    \/ /\ Appended(vendor_payments, vendor_payments')
       /\ vendor_payments'[Len(vendor_payments')].source = "sales_cash"
    \/ /\ Appended(purchases, purchases')
       /\ \/ purchases'[Len(purchases')].payment_type = "credit"
          \/ purchases'[Len(purchases')].source_if_cash = "sales_cash"
    \/ Appended(returns, returns')

\* owner_ledger only grows, by one row at its end; and an insert of a kind
\* that gets no entry leaves its session with no record_owner_ledger call.
OwnerLedgerStep ==
    /\ owner_ledger' = owner_ledger \/ Appended(owner_ledger, owner_ledger')
    /\ InsertWithoutEntry
         => /\ owner_ledger' = owner_ledger
            /\ \A s \in Sessions : sess'[s] # sess[s] => sess'[s].pc # "ledger"

\* C23 as stated: in every state reachable without store failures, the sum
\* of all owner_ledger amounts equals the owner_pocket expenses, vendor
\* payments and cash purchases less the withdrawals.
C23_OwnerLedgerSum == SumAmount(owner_ledger) = OwnerNet

\* C23 amended: the sum holds in every state in which no handler stands
\* between its insert and its record_owner_ledger call; credit purchases,
\* returns, sales_cash movements and shortages add no entry, and no entry
\* is ever changed or removed.
C23_OwnerLedgerSumBetweenCalls ==
    /\ [](NoLedgerPending => SumAmount(owner_ledger) = OwnerNet)
    /\ [][OwnerLedgerStep]_vars

\* C23 witness: the owner has paid an expense of 1 and withdrawn 1, both are
\* in owner_ledger, and its sum is 0.
C23_Witness ==
    /\ AtRest
    /\ Len(OwnerPocket(expenses)) = 1
    /\ Len(withdrawals) = 1
    /\ Len(owner_ledger) = 2
    /\ SumAmount(owner_ledger) = 0
    /\ \E k \in 1..2 : owner_ledger[k].amount = 1

\* The close_shift call of session s has come back to the page after its
\* shortage branch: the insert and update_expected_cash went through, and the
\* one store call of it that failed is the final update.
FinalUpdateFailed(s) ==
    /\ sess[s].pc = "close_ret"
    /\ sess[s].msgs = {"Failed to close shift"}
    /\ sess[s].faults = 1
    /\ sess[s].closing_cash < Val(sess[s].expected)

\* The shift is still open and its shortage is the last expense.
OpenWithShortage(s) ==
    /\ shifts[sess[s].shift_id].status = "open"
    /\ expenses # <<>>
    /\ expenses[Len(expenses)].shift_id = sess[s].shift_id
    /\ expense_heads[expenses[Len(expenses)].expense_head_id] = "Cash Shortage"
    /\ expenses[Len(expenses)].amount = Val(sess[s].expected) - sess[s].closing_cash

\* close_shift called again on this store with the same closing_cash does not
\* find closing_cash below the expected cash: it inserts no shortage and goes
\* to the final update.
RetryAddsNoShortage(s) ==
    ~(sess[s].closing_cash < ExpectedAtClose(sess[s].shift_id, {}))

\* The final update of close_shift, when it does not fail, closes the shift
\* and inserts nothing.
FinalUpdateStep ==
    \A s \in Sessions :
       (sess[s].pc = "cs_final" /\ sess'[s] # sess[s] /\ sess'[s].faults = sess[s].faults)
          => /\ shifts'[sess[s].shift_id].status = "closed"
             /\ shifts'[sess[s].shift_id].closing_cash_entered = Some(sess[s].closing_cash)
             /\ expenses' = expenses

\* C24 as stated: if close_shift inserts the shortage expense and recomputes
\* expected cash but its final update fails, the shift stays open with the
\* shortage recorded, and close_shift called again with the same closing_cash
\* inserts no second shortage expense.
C24_RetryAddsNoShortage ==
    \A s \in Sessions : FinalUpdateFailed(s) => OpenWithShortage(s) /\ RetryAddsNoShortage(s)

\* C24 amended: the same, when the expected cash the failed call determined
\* was the formula over the rows stored then; and the call made again closes
\* the shift.
C24_RetryAddsNoShortageWhenFresh ==
    /\ [](\A s \in Sessions :
            FinalUpdateFailed(s) /\ DeterminedFormula(s)
               => OpenWithShortage(s) /\ RetryAddsNoShortage(s))
    /\ [][FinalUpdateStep]_vars

\* C24 witness: a close with closing cash 1 recorded its shortage and failed
\* at the final update; made again with closing cash 1 it found nothing
\* short and closed the shift, which holds the one shortage expense.
C24_Witness ==
    \E s \in Sessions :
       /\ sess[s].pc = "close_ret"
       /\ sess[s].msgs = {}
       /\ sess[s].faults = 0
       /\ sess[s].closing_cash = 1
       /\ sess[s].expected = Some(1)
       /\ failBudget < RetryFail
       /\ shifts[sess[s].shift_id].status = "closed"
       /\ shifts[sess[s].shift_id].closing_cash_entered = Some(1)
       /\ Len(Mine(expenses, sess[s].shift_id)) = 1
       /\ Mine(expenses, sess[s].shift_id)[1].amount = 1

\* Sessions s and o are both back from get_or_create_shift for the same
\* (date, shift_name), each with an id.
BothReturned(s, o) ==
    /\ sess[s].pc = "shift_ret" /\ sess[o].pc = "shift_ret"
    /\ sess[s].date = sess[o].date
    /\ sess[s].shift_name = sess[o].shift_name
    /\ sess[s].result # None /\ sess[o].result # None

\* C25: when two sessions call get_or_create_shift for the same (date,
\* shift_name) with their lookup and insert steps interleaved, the shifts
\* collection still holds at most one shift for that pair and both calls
\* return the same id.
C25_OneShiftUnderInterleaving ==
    /\ \A i, j \in ShiftIds :
          (shifts[i].date = shifts[j].date /\ shifts[i].shift_name = shifts[j].shift_name)
             => i = j
    /\ \A s, o \in Sessions : BothReturned(s, o) => sess[s].result = sess[o].result
=============================================================================
